---- MODULE Spec2Model ----
(***************************************************************************)
(* trade-alert: a polling monitor for one coin's spot price.               *)
(*                                                                         *)
(* The module models watch_coin.py's polling loop (its module-level state  *)
(* and one action per section of the loop body), the pure functions of     *)
(* technical_analysis.py and the detectors of watch_coin.py.               *)
(*                                                                         *)
(* Numbers.  Python floats are modelled by integers in fixed units:        *)
(*   - prices, Bollinger bands and ATR: whole dollars;                     *)
(*   - percentage changes (p1h, p24h, p7d): tenths of a percent, so the    *)
(*     code's thresholds 1, 2, -1 and 0.5 read 10, 20, -10 and 5;          *)
(*   - MACD line / signal / histogram: tenths; RSI: points;                *)
(*   - order quantities and base-currency balances: units of 10^-7 coin,   *)
(*     so that round(x, 6) is seen to round.                               *)
(* Products such as mn * 1.01 are kept as exact fractions (mn * 101 in     *)
(* hundredths).  Python's None is <<>>, a present value v is <<v>>.        *)
(***************************************************************************)
EXTENDS Integers, Sequences, FiniteSets

VARIABLES
    pc,                    \* position of the polling loop in its body
    ENABLE_BYBIT_TRADING,  \* watch_coin.py:24-36
    initial_price,         \* watch_coin.py:47
    last_alert_price,      \* watch_coin.py:48
    last_summary_time,     \* watch_coin.py:49
    price_history,         \* watch_coin.py:50, deque(maxlen=10)
    now,                   \* the wall clock, in hours
    price_data,            \* the record fetch_price_data returned this tick
    indicators,            \* the tick's IndicatorSet
    strategy_signal,       \* the tick's signal
    notified,              \* the notify() calls of the current tick, in order
    orders,                \* the place_order calls of the current tick
    queried,               \* the get_spot_balance calls of the current tick
    fetched,               \* every current_price a successful fetch returned
    callee,                \* function driven on its own (not by the loop)
    args,                  \* its arguments
    ret                    \* <<>> before it returns, <<value>> after

vars == <<pc, ENABLE_BYBIT_TRADING, initial_price, last_alert_price,
          last_summary_time, price_history, now, price_data, indicators,
          strategy_signal, notified, orders, queried, fetched, callee, args,
          ret>>

loopVars == <<pc, ENABLE_BYBIT_TRADING, initial_price, last_alert_price,
              last_summary_time, price_history, now, price_data, indicators,
              strategy_signal, notified, orders, queried, fetched>>

callVars == <<callee, args, ret>>

----------------------------------------------------------------------------
(* Bounds of the model *)

\* longest OHLC series handed to calculate_indicators
MaxRows == 36
\* most rows of one OHLC series whose open/high/low/close is not numeric
MaxBadRows == 1
\* longest price history handed to a detector driven on its own
MaxHist == 11
\* most changes of price between consecutive entries of one price series
MaxMoves == 2
\* longest command line
MaxArgs == 3
\* the clock value (hours) after which the loop is no longer followed
MaxClock == 11
\* most ticks of one run whose fetch fails
MaxFails == 1

----------------------------------------------------------------------------
(* Python values *)

None == <<>>
Some(v) == <<v>>
IsNone(x) == x = <<>>
Val(x) == x[1]

\* a pandas float: NaN or a number
NaN == [nan |-> TRUE, v |-> 0]
F(x) == [nan |-> FALSE, v |-> x]

RECURSIVE SumSeq(_)
SumSeq(s) == IF s = <<>> THEN 0 ELSE Head(s) + SumSeq(Tail(s))

MaxOf(s) == CHOOSE x \in {s[i] : i \in 1..Len(s)} : \A i \in 1..Len(s) : s[i] <= x
MinOf(s) == CHOOSE x \in {s[i] : i \in 1..Len(s)} : \A i \in 1..Len(s) : x <= s[i]

\* list(s)[-n:]
LastN(s, n) == IF Len(s) <= n THEN s ELSE SubSeq(s, Len(s) - n + 1, Len(s))

\* number of places where a series changes value
Moves(s) == Cardinality({i \in 1..(Len(s) - 1) : s[i] # s[i + 1]})

----------------------------------------------------------------------------
(* config.py.  An attribute the module does not define raises             *)
(* AttributeError when it is read.                                         *)

config ==
    [COIN_ID |-> "sui",
     VS_CURRENCY |-> "usd",
     TARGET_PERCENT |-> 5,
     CHECK_INTERVAL |-> 3600,
     SUMMARY_INTERVAL_HOURS |-> 1,
     ENABLE_BYBIT_TRADING_DEFAULT |-> FALSE,
     TRADE_SIZE_USD |-> 10,
     BYBIT_BASE_CURRENCY |-> "SUI",
     BYBIT_QUOTE_CURRENCY |-> "USD",
     BYBIT_SYMBOL |-> "SUIUSD"]

hasattr(name) == name \in DOMAIN config

----------------------------------------------------------------------------
(* technical_analysis.py *)

\* analyze_trend with the second rule's 24h threshold made inclusive
analyze_trend_ge(price, p1h, p24h, p7d) ==
    IF p1h > 10 /\ p24h > 20 THEN [label |-> "Uptrend", p1h |-> p1h, p24h |-> p24h]
    ELSE IF p1h < -10 /\ p24h >= 20 THEN [label |-> "Pullback", p1h |-> p1h, p24h |-> p24h]
    ELSE IF p24h < 0 /\ p7d < 0 THEN [label |-> "Downtrend", p24h |-> p24h, p7d |-> p7d]
    ELSE [label |-> "Sideways", p1h |-> p1h, p24h |-> p24h, p7d |-> p7d]

analyze_trend(price, p1h, p24h, p7d) ==
    IF p1h > 10 /\ p24h > 20 THEN [label |-> "Uptrend", p1h |-> p1h, p24h |-> p24h]
    ELSE IF p1h < -10 /\ p24h > 20 THEN [label |-> "Pullback", p1h |-> p1h, p24h |-> p24h]
    ELSE IF p24h < 0 /\ p7d < 0 THEN [label |-> "Downtrend", p24h |-> p24h, p7d |-> p7d]
    ELSE [label |-> "Sideways", p1h |-> p1h, p24h |-> p24h, p7d |-> p7d]

\* Projected prices as exact fractions of a dollar: p1d over 2000, p7d over
\* 1000, p30d over 1000^4.
simple_price_prediction(price, p1h, p24h, p7d_percentage) ==
    [p1d_price |-> IF p24h < 0 /\ p1h > 5
                   THEN price * (2000 + (p1h + p24h))
                   ELSE price * (2000 + 2 * p24h),
     p7d_price |-> price * (1000 + p7d_percentage),
     p30d_price |-> price * (1000 + p7d_percentage) * (1000 + p7d_percentage)
                          * (1000 + p7d_percentage) * (1000 + p7d_percentage)]

AllNone ==
    [rsi |-> None, macd_line |-> None, macd_histogram |-> None, macd_signal |-> None,
     bb_lower |-> None, bb_middle |-> None, bb_upper |-> None, atr |-> None]

\* float(x) if pd.notna(x) else None
notna(x) == ~x.nan
ToOptional(x) == IF notna(x) THEN Some(x.v) ELSE None

\* df.dropna(subset=[open, high, low, close]): a row is "num" when its four
\* prices convert to numbers and "nan" when pd.to_numeric coerces one to NaN
dropna(rows) == SelectSeq(rows, LAMBDA r : r = "num")

\* the histogram with its operands swapped
latest_macd_histogram_swapped(line, signal) ==
    IF notna(line) /\ notna(signal) THEN Some(signal.v - line.v) ELSE None

latest_macd_histogram(line, signal) ==
    IF notna(line) /\ notna(signal) THEN Some(line.v - signal.v) ELSE None

\* one row fewer than the code requires
required_data_points_low == 35 - 1

required_data_points == 35

\* a finta call raised
TAFault ==
    [raises |-> TRUE, RSI |-> NaN, MACD |-> NaN, SIGNAL |-> NaN, BB_LOWER |-> NaN,
     BB_MIDDLE |-> NaN, BB_UPPER |-> NaN, ATR |-> NaN]

\* ta is what finta's TA.RSI / TA.MACD / TA.BBANDS / TA.ATR give for the cleaned
\* frame: their latest values, or an exception (ta.raises)
calculate_indicators(ohlc_data, ta) ==
    IF ohlc_data = <<>> \/ Len(ohlc_data) < 20 THEN AllNone
    ELSE LET df == dropna(ohlc_data) IN
         IF Len(df) < required_data_points THEN AllNone
         ELSE IF ta.raises THEN AllNone
         ELSE LET hist == latest_macd_histogram(ta.MACD, ta.SIGNAL) IN
              [rsi |-> ToOptional(ta.RSI),
               macd_line |-> ToOptional(ta.MACD),
               macd_histogram |-> hist,
               macd_signal |-> ToOptional(ta.SIGNAL),
               bb_lower |-> ToOptional(ta.BB_LOWER),
               bb_middle |-> ToOptional(ta.BB_MIDDLE),
               bb_upper |-> ToOptional(ta.BB_UPPER),
               atr |-> ToOptional(ta.ATR)]

\* generate_trading_signal with the overbought test made inclusive
generate_trading_signal_le(ind, current_price) ==
    IF IsNone(ind.macd_histogram) \/ IsNone(ind.rsi) \/ IsNone(ind.bb_middle)
       \/ IsNone(ind.macd_line)
    THEN "HOLD"
    ELSE IF Val(ind.macd_histogram) > 0 /\ Val(ind.rsi) <= 70
            /\ current_price < Val(ind.bb_middle) /\ Val(ind.macd_line) > 0
    THEN "BUY"
    ELSE IF Val(ind.macd_histogram) < 0 /\ Val(ind.rsi) > 30
            /\ current_price > Val(ind.bb_middle) /\ Val(ind.macd_line) < 0
    THEN "SELL"
    ELSE "HOLD"

generate_trading_signal(ind, current_price) ==
    IF IsNone(ind.macd_histogram) \/ IsNone(ind.rsi) \/ IsNone(ind.bb_middle)
       \/ IsNone(ind.macd_line)
    THEN "HOLD"
    ELSE IF Val(ind.macd_histogram) > 0 /\ Val(ind.rsi) < 70
            /\ current_price < Val(ind.bb_middle) /\ Val(ind.macd_line) > 0
    THEN "BUY"
    ELSE IF Val(ind.macd_histogram) < 0 /\ Val(ind.rsi) > 30
            /\ current_price > Val(ind.bb_middle) /\ Val(ind.macd_line) < 0
    THEN "SELL"
    ELSE "HOLD"

----------------------------------------------------------------------------
(* watch_coin.py: the detectors.  A detector's result is a record:         *)
(* [kind |-> "None"] for Python's None, [kind |-> "raise"] when an         *)
(* exception escapes it, and otherwise the message it returns, by kind and *)
(* with the numbers the message shows.                                     *)

NoOpp == [kind |-> "None"]
Raised == [kind |-> "raise"]

predict_next_move(ph) ==
    IF Len(ph) < 5 THEN NoOpp
    ELSE LET sum3 == SumSeq(LastN(ph, 3))
             sum5 == SumSeq(LastN(ph, 5))
         IN  \* short_ma = sum3 / 3, long_ma = sum5 / 5
             IF 5 * sum3 > 3 * sum5 THEN [kind |-> "momentum_up"]
             ELSE IF 5 * sum3 < 3 * sum5 THEN [kind |-> "weakening"]
             ELSE [kind |-> "no_clear_direction"]

\* the ATR guard of the two ATR detectors without its test for zero
atr_unusable_none_only(atr) == IsNone(atr)

\* atr is None or atr == 0
atr_unusable(atr) == IsNone(atr) \/ Val(atr) = 0

detect_dca_opportunity(ph, ind) ==
    IF Len(ph) < 5 THEN NoOpp
    ELSE IF atr_unusable(ind.atr) THEN NoOpp
    ELSE LET sum5 == SumSeq(LastN(ph, 5))     \* avg_price = sum5 / 5
             curr == ph[Len(ph)]
         IN  IF ~hasattr("DCA_ATR_MULTIPLIER") THEN Raised
             ELSE IF 5 * curr < sum5 - 5 * config.DCA_ATR_MULTIPLIER * Val(ind.atr)
                  THEN [kind |-> "dca", curr |-> curr, sum5 |-> sum5, atr |-> Val(ind.atr)]
                  ELSE NoOpp

\* the range detector without its guard on buy >= sell
range_levels_unguarded(mn, mx) ==
    [kind |-> "range", mn |-> mn, mx |-> mx, buy |-> mn * 101, sell |-> mx * 99]

\* the sell level taken from the minimum instead of the maximum
range_levels_sell_from_min(mn, mx) ==
    LET buy == mn * 101
        sell == mn * 99
    IN  IF buy >= sell THEN NoOpp
        ELSE [kind |-> "range", mn |-> mn, mx |-> mx, buy |-> buy, sell |-> sell]

\* buy = mn * 1.01 and sell = mx * 0.99, in hundredths of a dollar
range_levels(mn, mx) ==
    LET buy == mn * 101
        sell == mx * 99
    IN  IF buy >= sell THEN NoOpp
        ELSE [kind |-> "range", mn |-> mn, mx |-> mx, buy |-> buy, sell |-> sell]

\* tol is the fraction tol[1] / tol[2]
detect_range_opportunity(ph, tol) ==
    IF Len(ph) < 10 THEN NoOpp
    ELSE LET recent == LastN(ph, 10)
             mx == MaxOf(recent)
             mn == MinOf(recent)
             total == SumSeq(recent)          \* avg = total / len(recent)
         IN  IF total = 0 THEN Raised         \* ZeroDivisionError in (mx - mn) / avg
             ELSE IF (mx - mn) * Len(recent) * tol[2] <= tol[1] * total
                  THEN range_levels(mn, mx)
                  ELSE NoOpp

detect_breakout(ph, current_price, ind, n) ==
    IF Len(ph) < n THEN NoOpp
    ELSE IF atr_unusable(ind.atr) THEN NoOpp
    ELSE LET recent == LastN(ph, n)
             mx == MaxOf(recent)
             mn == MinOf(recent)
             atr == Val(ind.atr)
         IN  IF ~hasattr("BREAKOUT_ATR_MULTIPLIER") THEN Raised
             ELSE IF current_price > mx + config.BREAKOUT_ATR_MULTIPLIER * atr
                  THEN [kind |-> "breakout_up", mx |-> mx, atr |-> atr]
             ELSE IF current_price < mn - config.BREAKOUT_ATR_MULTIPLIER * atr
                  THEN [kind |-> "breakout_down", mn |-> mn, atr |-> atr]
             ELSE NoOpp

\* detect_range_opportunity's default tolerance, 0.03
DefaultTol == <<3, 100>>

----------------------------------------------------------------------------
(* The polling loop's state after the module is imported, before the first *)
(* tick.  The specifications that drive one function leave it alone.       *)

NoData == [current_price |-> 0, p1h |-> 0, p24h |-> 0, p7d |-> 0, ohlc |-> <<>>]

\* lines 24 and 35-45: the flag's value once the command line is applied to
\* the configured default
enable_bybit_trading(default, enable_bybit) ==
    IF enable_bybit THEN TRUE ELSE default

LoopInit ==
    /\ pc = "fetch"
    /\ \E enable_bybit \in BOOLEAN :        \* args.enable_bybit
           ENABLE_BYBIT_TRADING =
               enable_bybit_trading(config.ENABLE_BYBIT_TRADING_DEFAULT, enable_bybit)
    /\ initial_price = None
    /\ last_alert_price = None
    /\ now = 0
    /\ last_summary_time = now - 24
    /\ price_history = <<>>
    /\ price_data = NoData
    /\ indicators = AllNone
    /\ strategy_signal = "HOLD"
    /\ notified = <<>>
    /\ orders = <<>>
    /\ queried = <<>>
    /\ fetched = <<>>

LoopIdle ==
    /\ LoopInit
    /\ ENABLE_BYBIT_TRADING = config.ENABLE_BYBIT_TRADING_DEFAULT

----------------------------------------------------------------------------
(* watch_coin.py: the polling loop, lines 190-318.  One action per section *)
(* of the loop body; an exception that escapes a section ends the process  *)
(* (pc = "crashed"), since the loop has no handler of its own.             *)

Rows(n) == [i \in 1..n |-> "num"]

\* what the data source can answer
FeedPrices == {0, 95, 98, 100}
\* (the percentage changes only reach the text of the messages)
FeedChanges == {[p1h |-> 10, p24h |-> -20, p7d |-> -10]}
FeedOhlc == {<<>>, Rows(required_data_points)}

\* what finta can compute in a tick
FeedTA ==
    {TAFault,
     [raises |-> FALSE, RSI |-> F(65), MACD |-> F(12), SIGNAL |-> F(9),
      BB_LOWER |-> F(90), BB_MIDDLE |-> F(98), BB_UPPER |-> F(110), ATR |-> F(0)],
     [raises |-> FALSE, RSI |-> F(65), MACD |-> F(12), SIGNAL |-> F(9),
      BB_LOWER |-> F(90), BB_MIDDLE |-> F(98), BB_UPPER |-> F(110), ATR |-> F(2)],
     [raises |-> FALSE, RSI |-> F(65), MACD |-> F(-12), SIGNAL |-> F(-9),
      BB_LOWER |-> F(90), BB_MIDDLE |-> F(98), BB_UPPER |-> F(110), ATR |-> NaN]}

\* deque(maxlen=10)
price_history_maxlen == 10

\* an append that evicts nothing
deque_append_unbounded(dq, x) == Append(dq, x)

\* a full deque that keeps what it has and drops the new entry
deque_append_drops_new(dq, x) ==
    IF Len(dq) < price_history_maxlen THEN Append(dq, x) ELSE dq

\* deque.append: the oldest entry is dropped when the deque is full
deque_append(dq, x) == LastN(Append(dq, x), price_history_maxlen)

\* a failed fetch that skips to the summary check instead of the sleep
FetchFails_runs_summary ==
    /\ pc = "fetch"
    /\ now < MaxClock
    /\ now - Len(fetched) < MaxFails
    /\ pc' = "summary"
    /\ UNCHANGED <<ENABLE_BYBIT_TRADING, initial_price, last_alert_price,
                   last_summary_time, price_history, now, price_data, indicators,
                   strategy_signal, notified, orders, queried, fetched>>
    /\ UNCHANGED callVars

\* fetch_price_data() returned None: lines 192-197
FetchFails ==
    /\ pc = "fetch"
    /\ now < MaxClock
    /\ now - Len(fetched) < MaxFails
    /\ pc' = "sleep"
    /\ UNCHANGED <<ENABLE_BYBIT_TRADING, initial_price, last_alert_price,
                   last_summary_time, price_history, now, price_data, indicators,
                   strategy_signal, notified, orders, queried, fetched>>
    /\ UNCHANGED callVars

\* fetch_price_data() returned a record: lines 192-214, up to the tick's
\* indicators and signal
FetchSucceeds ==
    /\ pc = "fetch"
    /\ now < MaxClock
    /\ \E p \in FeedPrices, ch \in FeedChanges, ohlc \in FeedOhlc, ta \in FeedTA :
           LET ind == calculate_indicators(ohlc, ta) IN
           /\ Moves(Append(fetched, p)) <= MaxMoves
           /\ price_data' = [current_price |-> p, p1h |-> ch.p1h, p24h |-> ch.p24h,
                             p7d |-> ch.p7d, ohlc |-> ohlc]
           /\ price_history' = deque_append(price_history, p)
           /\ fetched' = Append(fetched, p)
           /\ IF initial_price = None
              THEN /\ initial_price' = Some(p)
                   /\ last_alert_price' = Some(p)
                   /\ last_summary_time' = now - 24
              ELSE UNCHANGED <<initial_price, last_alert_price, last_summary_time>>
           /\ indicators' = ind
           /\ strategy_signal' = generate_trading_signal(ind, p)
    /\ pc' = "alert"
    /\ UNCHANGED <<ENABLE_BYBIT_TRADING, now, notified, orders, queried>>
    /\ UNCHANGED callVars

\* the notify() calls of send_market_alert, lines 154-159
send_market_alert(label, pm) ==
    <<label, "trend">> \o (IF pm # NoOpp THEN <<"momentum">> ELSE <<>>)
                       \o <<"alert_signal">>

\* pct >= TARGET_PERCENT with pct = (cur - base) / base * 100, base > 0
pct_reaches_up(cur, base) == (cur - base) * 100 >= config.TARGET_PERCENT * base

\* the drop test with a strict comparison
pct_reaches_down_strict(cur, base) == (cur - base) * 100 < -config.TARGET_PERCENT * base

\* pct <= -TARGET_PERCENT
pct_reaches_down(cur, base) == (cur - base) * 100 <= -config.TARGET_PERCENT * base

\* price-move alerts, lines 216-227
Alert ==
    /\ pc = "alert"
    /\ LET cur == price_data.current_price
           base == Val(last_alert_price)
           pm == predict_next_move(price_history)
       IN  IF base = 0
           THEN \* ZeroDivisionError at line 217
                /\ pc' = "crashed"
                /\ UNCHANGED <<last_alert_price, notified>>
           ELSE IF pct_reaches_up(cur, base)
           THEN /\ notified' = notified \o send_market_alert("alert_up", pm)
                /\ last_alert_price' = Some(cur)
                /\ pc' = "notify"
           ELSE IF pct_reaches_down(cur, base)
           THEN /\ notified' = notified \o send_market_alert("alert_down", pm)
                /\ last_alert_price' = Some(cur)
                /\ pc' = "notify"
           ELSE /\ pc' = "notify"
                /\ UNCHANGED <<last_alert_price, notified>>
    /\ UNCHANGED <<ENABLE_BYBIT_TRADING, initial_price, last_summary_time,
                   price_history, now, price_data, indicators, strategy_signal,
                   orders, queried, fetched>>
    /\ UNCHANGED callVars

\* The regular notifications of lines 229-255 as a record: the notify() calls
\* made, in order, and whether an exception escaped a detector.
regular_notifications(ph, cur, ind) ==
    LET rng == detect_range_opportunity(ph, DefaultTol)
        brk == detect_breakout(ph, cur, ind, 10)
        dca == detect_dca_opportunity(ph, ind)
        n1 == <<"status">>
        n2 == IF rng # NoOpp THEN Append(n1, rng.kind) ELSE n1
        n3 == IF brk # NoOpp THEN Append(n2, brk.kind) ELSE n2
        n4 == Append(n3, "prediction")
        n5 == IF dca # NoOpp THEN Append(n4, dca.kind) ELSE n4
    IN  IF rng = Raised THEN [raised |-> TRUE, sent |-> n1]
        ELSE IF brk = Raised THEN [raised |-> TRUE, sent |-> n2]
        ELSE IF dca = Raised THEN [raised |-> TRUE, sent |-> n4]
        ELSE [raised |-> FALSE, sent |-> n5]

\* lines 229-255
Notify ==
    /\ pc = "notify"
    /\ LET r == regular_notifications(price_history, price_data.current_price, indicators)
       IN  /\ notified' = notified \o r.sent
           /\ pc' = IF r.raised THEN "crashed" ELSE "trade"
    /\ UNCHANGED <<ENABLE_BYBIT_TRADING, initial_price, last_alert_price,
                   last_summary_time, price_history, now, price_data, indicators,
                   strategy_signal, orders, queried, fetched>>
    /\ UNCHANGED callVars

\* a / b rounded to the nearest integer, ties to even (a >= 0, b > 0)
RoundDiv(a, b) ==
    LET q == a \div b
        r == a % b
    IN  IF 2 * r > b THEN q + 1
        ELSE IF 2 * r < b THEN q
        ELSE IF q % 2 = 0 THEN q ELSE q + 1

\* Quantities of the base currency are counted in units of 10^-7 coin, so
\* round(x, 6) gives a multiple of 10 units.
\* round(TRADE_SIZE_USD / current_price, 6)
quantity_to_buy(cur) == 10 * RoundDiv(config.TRADE_SIZE_USD * 10000000, 10 * cur)

\* lines 290-299: the lesser of the trade-size equivalent and the balance
quantity_to_sell(cur, base_currency_balance) ==
    IF base_currency_balance * cur >= config.TRADE_SIZE_USD * 10000000
    THEN 10 * RoundDiv(config.TRADE_SIZE_USD * 10000000, 10 * cur)
    ELSE 10 * RoundDiv(base_currency_balance, 10)

\* get_spot_balance's answers: the quote currency in dollars, the base
\* currency in units; 0 is also what it returns on any error
QuoteBalances == {0, 10}
BaseBalances == {0, 4, 17, 10000000}

\* place_spot_market_order's notification, bybit_operations.py:103-118
OrderOutcomes == {"order_ok", "order_error", "order_exception"}

\* the Bybit section, lines 264-309
Trade ==
    /\ pc = "trade"
    /\ LET cur == price_data.current_price IN
       IF ~(ENABLE_BYBIT_TRADING /\ strategy_signal \in {"BUY", "SELL"})
       THEN /\ pc' = "summary"
            /\ UNCHANGED <<notified, orders, queried>>
       ELSE \E bybit_client \in BOOLEAN :
            IF ~bybit_client
            THEN /\ notified' = Append(notified, "no_client")
                 /\ pc' = "summary"
                 /\ UNCHANGED <<orders, queried>>
            ELSE IF strategy_signal = "BUY"
            THEN \E quote_currency_balance \in QuoteBalances :
                 /\ queried' = Append(queried,
                        [currency |-> config.BYBIT_QUOTE_CURRENCY,
                         balance |-> quote_currency_balance])
                 /\ IF quote_currency_balance >= config.TRADE_SIZE_USD
                    THEN IF cur = 0
                         THEN \* ZeroDivisionError at line 275
                              /\ pc' = "crashed"
                              /\ UNCHANGED <<notified, orders>>
                         ELSE \E outcome \in OrderOutcomes :
                              /\ notified' = notified \o <<"buy_attempt", outcome>>
                              /\ orders' = Append(orders,
                                     [side |-> "Buy", qty |-> quantity_to_buy(cur)])
                              /\ pc' = "summary"
                    ELSE /\ notified' = Append(notified, "insufficient_balance")
                         /\ pc' = "summary"
                         /\ UNCHANGED orders
            ELSE \E base_currency_balance \in BaseBalances :
                 /\ queried' = Append(queried,
                        [currency |-> config.BYBIT_BASE_CURRENCY,
                         balance |-> base_currency_balance])
                 /\ IF base_currency_balance > 0
                    THEN IF cur = 0
                         THEN \* ZeroDivisionError at line 290
                              /\ pc' = "crashed"
                              /\ UNCHANGED <<notified, orders>>
                         ELSE \E outcome \in OrderOutcomes :
                              /\ notified' = notified \o <<"sell_attempt", outcome>>
                              /\ orders' = Append(orders,
                                     [side |-> "Sell",
                                      qty |-> quantity_to_sell(cur, base_currency_balance)])
                              /\ pc' = "summary"
                    ELSE /\ notified' = Append(notified, "no_balance")
                         /\ pc' = "summary"
                         /\ UNCHANGED orders
    /\ UNCHANGED <<ENABLE_BYBIT_TRADING, initial_price, last_alert_price,
                   last_summary_time, price_history, now, price_data, indicators,
                   strategy_signal, fetched>>
    /\ UNCHANGED callVars

\* send_daily_summary, lines 162-187: the notify() calls it makes.  fetch_ok is
\* whether its own fetch_price_data() returned a record.
send_daily_summary(ph, fetch_ok) ==
    IF ph = <<>> THEN <<>>
    ELSE IF ~fetch_ok THEN <<"summary_error">>
    ELSE <<"summary">>

\* now - last_summary_time >= timedelta(hours=SUMMARY_INTERVAL_HOURS)
summary_due(t, last) == t - last >= config.SUMMARY_INTERVAL_HOURS

\* periodic summary, lines 312-316
Summary ==
    /\ pc = "summary"
    /\ IF summary_due(now, last_summary_time)
       THEN \E fetch_ok \in BOOLEAN :
                /\ notified' = notified \o send_daily_summary(price_history, fetch_ok)
                /\ last_summary_time' = now
       ELSE UNCHANGED <<notified, last_summary_time>>
    /\ pc' = "sleep"
    /\ UNCHANGED <<ENABLE_BYBIT_TRADING, initial_price, last_alert_price,
                   price_history, now, price_data, indicators, strategy_signal,
                   orders, queried, fetched>>
    /\ UNCHANGED callVars

\* time.sleep(config.CHECK_INTERVAL), lines 196 and 318, and the return to the
\* top of the loop.  The tick's locals are dead from here on (each is assigned
\* again before it is read), so they are reset.
Sleep ==
    /\ pc = "sleep"
    /\ now' = now + config.CHECK_INTERVAL \div 3600
    /\ pc' = "fetch"
    /\ price_data' = NoData
    /\ indicators' = AllNone
    /\ strategy_signal' = "HOLD"
    /\ notified' = <<>>
    /\ orders' = <<>>
    /\ queried' = <<>>
    /\ UNCHANGED <<ENABLE_BYBIT_TRADING, initial_price, last_alert_price,
                   last_summary_time, price_history, fetched>>
    /\ UNCHANGED callVars

Init ==
    /\ LoopInit
    /\ callee = "none"
    /\ args = <<>>
    /\ ret = <<>>

Next ==
    \/ FetchFails
    \/ FetchSucceeds
    \/ Alert
    \/ Notify
    \/ Trade
    \/ Summary
    \/ Sleep

Spec == Init /\ [][Next]_vars

IsAlert(m) == m \in {"alert_up", "alert_down"}
AlertCount(log) == Cardinality({i \in 1..Len(log) : IsAlert(log[i])})

(* C8: PriceHistory holds at most 10 values and equals, in chronological   *)
(* order, the current_price values of the most recent (up to 10) ticks     *)
(* whose fetch succeeded: a successful tick appends one value, the oldest  *)
(* is evicted when an 11th arrives, and nothing else in the tick changes   *)
(* it.                                                                     *)
C8_HistoryIsLastTenFetched ==
    /\ Len(price_history) <= 10
    /\ Len(price_history) = IF Len(fetched) <= 10 THEN Len(fetched) ELSE 10
    /\ \A i \in 1..Len(price_history) :
           price_history[i] = fetched[Len(fetched) - Len(price_history) + i]

\* an 11th price has arrived and the first one is gone
C8_Witness ==
    /\ Len(fetched) = 11
    /\ fetched[1] = 100 /\ fetched[2] = 98 /\ fetched[11] = 95
    /\ price_history[1] = 98
    /\ price_history[10] = 95
    /\ pc = "sleep"

(* C9: in a tick with a successful fetch, with pct = (current_price -      *)
(* last_alert_price) / last_alert_price * 100, one directional alert is    *)
(* emitted and last_alert_price becomes current_price if                   *)
(* pct >= TARGET_PERCENT or pct <= -TARGET_PERCENT; otherwise no           *)
(* directional alert is emitted and last_alert_price is unchanged.  No     *)
(* other section of the tick emits a directional alert or moves the        *)
(* baseline, which is set to the price of the first successful fetch.      *)
C9_AlertRatchet ==
    [][LET cur == price_data.current_price
           base == last_alert_price[1]
           fires == /\ base # 0
                    /\ \/ (cur - base) * 100 >= config.TARGET_PERCENT * base
                       \/ (cur - base) * 100 <= -config.TARGET_PERCENT * base
       IN  /\ pc = "alert" =>
                  /\ AlertCount(notified) = 0
                  /\ IF fires
                     THEN /\ AlertCount(notified') = 1
                          /\ last_alert_price' = <<cur>>
                     ELSE /\ notified' = notified
                          /\ last_alert_price' = last_alert_price
           /\ pc \in {"notify", "trade", "summary"} =>
                  /\ AlertCount(notified') = AlertCount(notified)
                  /\ last_alert_price' = last_alert_price
           /\ pc \in {"fetch", "sleep"} =>
                  /\ AlertCount(notified') = 0
                  /\ \/ last_alert_price' = last_alert_price
                     \/ /\ fetched = <<>>
                        /\ last_alert_price' = <<price_data'.current_price>>
      ]_vars

\* two moves of -2% and -3.06% add up to the -5% that fires the alert
C9_Witness ==
    /\ fetched = <<100, 98, 95>>
    /\ pc = "notify"
    /\ AlertCount(notified) = 1
    /\ notified[1] = "alert_down"
    /\ last_alert_price = <<95>>

\* the move of -2% alone fired nothing and left the baseline at 100
C9_WitnessBelowTarget ==
    /\ fetched = <<100, 98>>
    /\ pc = "notify"
    /\ notified = <<>>
    /\ last_alert_price = <<100>>

(* C10: no error is fatal to the process: whatever the fetch, the          *)
(* indicator computation, the detectors, the notification sink and the     *)
(* exchange calls give (a price of 0, absent indicator fields and the      *)
(* configuration values the detectors read included), the polling loop     *)
(* reaches its sleep and starts the next tick.                             *)
C10_NoFatalError == pc # "crashed"

\* the two ways the loop dies: a ZeroDivisionError on a price of 0 ...
C10_CrashOnZeroPrice ==
    /\ pc = "crashed"
    /\ price_data.current_price = 0

\* ... and an AttributeError on config.DCA_ATR_MULTIPLIER, which config.py does
\* not define, in the fifth tick that has a usable ATR
C10_CrashOnMissingConfig ==
    /\ pc = "crashed"
    /\ fetched = <<100, 100, 100, 100, 100>>
    /\ indicators.atr = <<2>>
    /\ notified = <<"status", "prediction">>

(* C11: a failed fetch_price_data is a value, not an exception, and the    *)
(* tick is skipped: the step that takes it leaves PriceHistory,            *)
(* last_alert_price and last_summary_time as they were and goes straight   *)
(* to the sleep, with no notification sent and no order attempted in that  *)
(* tick; the sleep then advances the clock by the check interval and       *)
(* starts the next tick.                                                   *)
C11_FailedFetchSkipsTick ==
    [][/\ (pc = "fetch" /\ fetched' = fetched) =>
              /\ pc' = "sleep"
              /\ price_history' = price_history
              /\ last_alert_price' = last_alert_price
              /\ last_summary_time' = last_summary_time
              /\ price_data' = NoData
              /\ notified' = <<>>
              /\ orders' = <<>>
       /\ (pc = "sleep" /\ price_data = NoData) =>
              /\ notified = <<>>
              /\ orders = <<>>
              /\ pc' = "fetch"
              /\ now' = now + 1
              /\ price_history' = price_history
              /\ last_alert_price' = last_alert_price
              /\ last_summary_time' = last_summary_time
      ]_vars

\* the third tick's fetch failed after an alert had moved the baseline to 95
C11_Witness ==
    /\ pc = "sleep"
    /\ price_data = NoData
    /\ now = 2
    /\ fetched = <<100, 95>>
    /\ price_history = <<100, 95>>
    /\ last_alert_price = <<95>>
    /\ notified = <<>>

\* ... and the tick after the skipped one fetched again
C11_WitnessNextTick ==
    /\ pc = "alert"
    /\ now = 3
    /\ fetched = <<100, 95, 95>>

\* the balance check of lines 274 and 288 on a balance that was read
balance_check_passes(q) ==
    IF q.currency = config.BYBIT_QUOTE_CURRENCY
    THEN q.balance >= config.TRADE_SIZE_USD
    ELSE q.balance > 0

(* C12: a tick places at most one exchange order.  With trading enabled    *)
(* and a BUY or SELL signal, a balance check that passes (BUY: quote       *)
(* balance >= trade size, SELL: base balance > 0) is followed by exactly   *)
(* one order attempt, and one that fails by a notification and no order.   *)
(* With trading disabled or a HOLD signal no balance is queried and no     *)
(* order is attempted.                                                     *)
C12_OneOrderPerTick ==
    /\ Len(orders) <= 1
    /\ Len(queried) <= 1
    /\ ~(ENABLE_BYBIT_TRADING /\ strategy_signal \in {"BUY", "SELL"}) =>
           (queried = <<>> /\ orders = <<>>)
    /\ queried = <<>> => orders = <<>>
    /\ queried # <<>> =>
           IF balance_check_passes(queried[1])
           THEN /\ Len(orders) = 1
                /\ orders[1].side = (IF strategy_signal = "BUY" THEN "Buy" ELSE "Sell")
           ELSE /\ orders = <<>>
                /\ \E i \in 1..Len(notified) :
                       notified[i] \in {"insufficient_balance", "no_balance"}

\* a BUY tick at price 0 whose quote balance covered the trade size: the
\* quantity's division raised and no order was attempted
C12_CrashBeforeOrder ==
    /\ pc = "crashed"
    /\ strategy_signal = "BUY"
    /\ price_data.current_price = 0
    /\ queried = <<[currency |-> "USD", balance |-> 10]>>
    /\ orders = <<>>

\* the ticks that do reach the end of the Bybit section
C12_OrderedOnce ==
    /\ pc = "summary"
    /\ strategy_signal = "SELL"
    /\ queried = <<[currency |-> "SUI", balance |-> 10000000]>>
    /\ Len(orders) = 1
    /\ notified[Len(notified)] = "order_error"

\* the tick in progress is the first one whose fetch succeeded
FirstSuccessfulTick == Len(fetched) = 1 /\ price_data # NoData

(* C14: in the first tick whose fetch succeeds, last_alert_price is that   *)
(* tick's current_price, no directional alert is emitted, and the tick     *)
(* reaches its summary check, where a summary is sent.                     *)
C14_FirstTickSummary ==
    FirstSuccessfulTick =>
        /\ last_alert_price = <<fetched[1]>>
        /\ AlertCount(notified) = 0
        /\ pc # "crashed"
        /\ pc = "sleep" => \E i \in 1..Len(notified) : notified[i] = "summary"

\* a first price of 0: the alert section divides by the baseline it was just
\* given and the tick never reaches its summary check
C14_FirstTickCrashes ==
    /\ FirstSuccessfulTick
    /\ fetched = <<0>>
    /\ pc = "crashed"
    /\ notified = <<>>

\* the summary's own fetch failed: the first tick ends with an error message
\* in place of the summary
C14_FirstTickSummaryError ==
    /\ FirstSuccessfulTick
    /\ fetched = <<100>>
    /\ pc = "sleep"
    /\ notified = <<"status", "prediction", "summary_error">>
    /\ last_summary_time = now

\* the tick in progress has sent message m
Sent(m) == \E i \in 1..Len(notified) : notified[i] = m

\* a detector's result that is not None
NonNull(r) == r \notin {NoOpp, Raised}

(* C15: a tick whose fetch succeeded emits, whatever else happens in it,   *)
(* the signal-status notification and the projected-price notification,    *)
(* and the result of each of the range, breakout, DCA and momentum         *)
(* detectors that is not None.                                             *)
C15_RegularNotifications ==
    (price_data # NoData /\ pc \in {"trade", "summary", "sleep", "crashed"}) =>
        LET cur == price_data.current_price
            rng == detect_range_opportunity(price_history, DefaultTol)
            brk == detect_breakout(price_history, cur, indicators, 10)
            dca == detect_dca_opportunity(price_history, indicators)
            pm == predict_next_move(price_history)
        IN  /\ Sent("status")
            /\ Sent("prediction")
            /\ NonNull(rng) => Sent(rng.kind)
            /\ NonNull(brk) => Sent(brk.kind)
            /\ NonNull(dca) => Sent(dca.kind)
            /\ NonNull(pm) => Sent("momentum")

\* the fifth tick: predict_next_move has a result, no alert fired, and the
\* tick's notifications are the status line and the projected price only
C15_MomentumNotEmitted ==
    /\ pc = "trade"
    /\ fetched = <<100, 100, 100, 100, 100>>
    /\ predict_next_move(price_history) # NoOpp
    /\ notified = <<"status", "prediction">>

\* the tenth tick with a usable ATR: detect_breakout raised before the
\* projected price was sent
C15_PredictionNotEmitted ==
    /\ pc = "crashed"
    /\ Len(price_history) = 10
    /\ Sent("status")
    /\ ~Sent("prediction")

(* C16: at the summary check that ends a tick, a summary is sent exactly   *)
(* when the time since last_summary_time is greater than the interval      *)
(* (equal is not enough), and last_summary_time moves only when a summary  *)
(* was sent: a check that sent none (not due, its own fetch failed, empty  *)
(* history) leaves it unchanged, so a due summary is tried again at the    *)
(* next tick.  No other step of the tick moves it once the first           *)
(* successful fetch has set it.                                            *)
C16_SummaryRule ==
    [][LET elapsed == now - last_summary_time
           fired == notified' = Append(notified, "summary")
       IN  /\ pc = "summary" =>
                  /\ fired <=> elapsed > config.SUMMARY_INTERVAL_HOURS
                  /\ fired => last_summary_time' = now
                  /\ ~fired => last_summary_time' = last_summary_time
           /\ (pc # "summary" /\ fetched # <<>>) =>
                  last_summary_time' = last_summary_time
      ]_vars

\* a summary check whose own fetch failed: an error message in place of the
\* summary, and last_summary_time moved all the same
C16_TimeMovedWithoutSummary ==
    /\ pc = "sleep"
    /\ fetched = <<100, 100>>
    /\ now = 1
    /\ notified = <<"status", "prediction", "summary_error">>
    /\ last_summary_time = 1

\* a summary sent when exactly one interval had passed since the last one
C16_FiredAtInterval ==
    /\ pc = "sleep"
    /\ fetched = <<100, 100, 100>>
    /\ now = 2
    /\ notified = <<"status", "prediction", "summary">>
    /\ last_summary_time = 2

\* q units is x / d units rounded to 6 decimals of a coin: a multiple of 10
\* units no further than 5 units from x / d
IsRounded6(q, x, d) ==
    /\ q % 10 = 0
    /\ q * d - x <= 5 * d
    /\ x - q * d <= 5 * d

(* C17: a BUY order's quantity is trade_size / current_price rounded to 6  *)
(* decimals; a SELL order's quantity is the lesser of trade_size /         *)
(* current_price and the base-currency balance, rounded to 6 decimals;     *)
(* every order submitted has a quantity greater than 0 and a SELL          *)
(* quantity is never greater than the balance that was read.               *)
C17_OrderSizing ==
    \A i \in 1..Len(orders) :
        LET o == orders[i]
            cur == price_data.current_price
            balance == queried[1].balance
            size == config.TRADE_SIZE_USD * 10000000     \* dollars * units per coin
        IN  /\ o.side = "Buy" => IsRounded6(o.qty, size, cur)
            /\ o.side = "Sell" =>
                   IF balance * cur >= size
                   THEN IsRounded6(o.qty, size, cur)
                   ELSE IsRounded6(o.qty, balance, 1)
            /\ o.qty > 0
            /\ o.side = "Sell" => o.qty <= balance

\* a balance of 0.0000004 coin passes the check balance > 0 and is rounded to
\* an order for 0.000000
C17_ZeroQuantityOrder ==
    /\ pc = "summary"
    /\ queried = <<[currency |-> "SUI", balance |-> 4]>>
    /\ orders = <<[side |-> "Sell", qty |-> 0]>>

\* a balance of 0.0000017 coin is rounded up to an order for 0.000002
C17_SellAboveBalance ==
    /\ pc = "summary"
    /\ queried = <<[currency |-> "SUI", balance |-> 17]>>
    /\ orders = <<[side |-> "Sell", qty |-> 20]>>

(* C18: in the polling loop the tick's current_price is the newest entry  *)
(* of PriceHistory when the detectors run, so it lies between the minimum  *)
(* and the maximum of the recent prices; neither comparison of             *)
(* detect_breakout can succeed for a positive ATR and a non-negative       *)
(* multiplier, and no tick emits a breakout-up or breakout-down            *)
(* notification.                                                           *)
C18_NoBreakoutInLoop ==
    /\ ~Sent("breakout_up")
    /\ ~Sent("breakout_down")
    /\ pc = "notify" =>
           LET cur == price_data.current_price
               recent == LastN(price_history, 10)
               mx == MaxOf(recent)
               mn == MinOf(recent)
           IN  /\ price_history[Len(price_history)] = cur
               /\ mn <= cur
               /\ cur <= mx
               /\ \A k \in 0..2, atr \in 1..2 :
                      /\ ~(cur > mx + k * atr)
                      /\ ~(cur < mn - k * atr)
               /\ ~NonNull(detect_breakout(price_history, cur, indicators, 10))

\* the tenth tick brings a new low of 95 under a usable ATR of 2:
\* detect_breakout ran on the full history and nothing was emitted for it
C18_Witness ==
    /\ Len(fetched) = 10
    /\ Len(price_history) = 10
    /\ price_history[1] = 100
    /\ price_history[9] = 98
    /\ price_data.current_price = 95
    /\ indicators.atr = <<2>>
    /\ pc \notin {"fetch", "alert", "notify"}
    /\ Sent("status")

\* the same new low when an eleventh price has evicted the first
C18_WitnessEvicted ==
    /\ Len(fetched) = 11
    /\ fetched[1] = 100
    /\ fetched[10] = 98
    /\ price_data.current_price = 95
    /\ MinOf(price_history) = 95
    /\ pc = "trade"

----------------------------------------------------------------------------
(* generate_trading_signal on its own *)

SignalIndicators ==
    {[AllNone EXCEPT !.macd_histogram = h, !.macd_line = l, !.rsi = r, !.bb_middle = b] :
        h \in {None, Some(-3), Some(0), Some(3)},
        l \in {None, Some(-12), Some(0), Some(12)},
        r \in {None, Some(30), Some(31), Some(65), Some(69), Some(70)},
        b \in {None, Some(100)}}

SignalInit ==
    /\ LoopIdle
    /\ callee = "generate_trading_signal"
    /\ args \in [indicators : SignalIndicators, current_price : {95, 100, 105}]
    /\ ret = <<>>

SignalCall ==
    /\ ret = <<>>
    /\ ret' = <<generate_trading_signal(args.indicators, args.current_price)>>
    /\ UNCHANGED <<callee, args>>
    /\ UNCHANGED loopVars

SignalNext == SignalCall

SpecSignal == SignalInit /\ [][SignalNext]_vars

(* C1: generate_trading_signal returns HOLD when macd_histogram, macd_line, *)
(* rsi or bb_middle is absent; otherwise BUY iff histogram > 0, line > 0,   *)
(* rsi < 70 and price < bb_middle; SELL iff histogram < 0, line < 0,        *)
(* rsi > 30 and price > bb_middle; HOLD in every other case.  BUY and SELL  *)
(* are never both applicable, and rsi 65, line 1.2, histogram 0.3,          *)
(* bb_middle 100 gives BUY at 95 and HOLD at 105.                           *)
C1_SignalContract ==
    ret # <<>> =>
        LET i == args.indicators
            p == args.current_price
            absent == \E f \in {"macd_histogram", "macd_line", "rsi", "bb_middle"} :
                          i[f] = None
            buy == /\ ~absent
                   /\ i.macd_histogram[1] > 0 /\ i.macd_line[1] > 0
                   /\ i.rsi[1] < 70 /\ p < i.bb_middle[1]
            sell == /\ ~absent
                    /\ i.macd_histogram[1] < 0 /\ i.macd_line[1] < 0
                    /\ i.rsi[1] > 30 /\ p > i.bb_middle[1]
            example == /\ i.rsi = <<65>> /\ i.macd_line = <<12>>
                       /\ i.macd_histogram = <<3>> /\ i.bb_middle = <<100>>
        IN  /\ ret[1] \in {"BUY", "SELL", "HOLD"}
            /\ absent => ret[1] = "HOLD"
            /\ (ret[1] = "BUY") <=> buy
            /\ (ret[1] = "SELL") <=> sell
            /\ (ret[1] = "HOLD") <=> (~buy /\ ~sell)
            /\ ~(buy /\ sell)
            /\ (example /\ p = 95) => ret[1] = "BUY"
            /\ (example /\ p = 105) => ret[1] = "HOLD"

\* the classifier answered BUY with rsi just under the overbought threshold
C1_Witness ==
    /\ ret = <<"BUY">>
    /\ args.indicators.rsi = <<69>>
    /\ args.current_price = 95

----------------------------------------------------------------------------
(* analyze_trend on its own *)

TrendPcts == {-20, -10, -5, 0, 10, 15, 20, 30}

TrendInit ==
    /\ LoopIdle
    /\ callee = "analyze_trend"
    /\ args \in [price : {50, 100}, p1h : TrendPcts, p24h : TrendPcts, p7d : TrendPcts]
    /\ ret = <<>>

TrendCall ==
    /\ ret = <<>>
    /\ ret' = <<analyze_trend(args.price, args.p1h, args.p24h, args.p7d)>>
    /\ UNCHANGED <<callee, args>>
    /\ UNCHANGED loopVars

TrendNext == TrendCall

SpecTrend == TrendInit /\ [][TrendNext]_vars

(* C7: analyze_trend gives Uptrend if p1h > 1 and p24h > 2; else Pullback  *)
(* if p1h < -1 and p24h > 2; else Downtrend if p24h < 0 and p7d < 0; else  *)
(* Sideways.  Every input gets exactly one label, p1h = 1.5, p24h = 3,     *)
(* p7d = 1 gives Uptrend, and the label does not depend on price.          *)
C7_TrendRules ==
    ret # <<>> =>
        LET up == args.p1h > 10 /\ args.p24h > 20
            pull == args.p1h < -10 /\ args.p24h > 20
            down == args.p24h < 0 /\ args.p7d < 0
            label == ret[1].label
        IN  /\ label \in {"Uptrend", "Pullback", "Downtrend", "Sideways"}
            /\ (label = "Uptrend") <=> up
            /\ (label = "Pullback") <=> (~up /\ pull)
            /\ (label = "Downtrend") <=> (~up /\ ~pull /\ down)
            /\ (label = "Sideways") <=> (~up /\ ~pull /\ ~down)
            /\ (args.p1h = 15 /\ args.p24h = 30 /\ args.p7d = 10) => label = "Uptrend"
            /\ \A price \in {50, 100} :
                   analyze_trend(price, args.p1h, args.p24h, args.p7d).label = label

\* a 1h drop with the 24h change exactly on the threshold is not a Pullback
C7_Witness ==
    /\ ret # <<>>
    /\ args.p1h = -20 /\ args.p24h = 20 /\ args.p7d = 10
    /\ ret[1].label = "Sideways"

----------------------------------------------------------------------------
(* calculate_indicators on its own: an OHLC series is built row by row and *)
(* handed over together with what finta computes from it.                  *)

TAOutcomes ==
    {TAFault} \cup
    [raises : {FALSE}, RSI : {NaN, F(65)}, MACD : {NaN, F(12), F(-12)},
     SIGNAL : {NaN, F(9), F(-15)}, BB_LOWER : {F(90)}, BB_MIDDLE : {NaN, F(100)},
     BB_UPPER : {F(110)}, ATR : {NaN, F(0), F(2)}]

BadRows(rows) == Cardinality({i \in 1..Len(rows) : rows[i] # "num"})

IndicatorsInit ==
    /\ LoopIdle
    /\ callee = "calculate_indicators"
    /\ args = [ohlc_data |-> <<>>, ta |-> TAFault]
    /\ ret = <<>>

AddRow ==
    /\ ret = <<>>
    /\ Len(args.ohlc_data) < MaxRows
    /\ \E row \in {"num", "nan"} :
           /\ BadRows(Append(args.ohlc_data, row)) <= MaxBadRows
           /\ args' = [args EXCEPT !.ohlc_data = Append(@, row)]
    /\ UNCHANGED <<callee, ret>>
    /\ UNCHANGED loopVars

IndicatorsCall ==
    /\ ret = <<>>
    /\ \E ta \in TAOutcomes :
           /\ args' = [args EXCEPT !.ta = ta]
           /\ ret' = <<calculate_indicators(args.ohlc_data, ta)>>
    /\ UNCHANGED callee
    /\ UNCHANGED loopVars

IndicatorsNext == AddRow \/ IndicatorsCall

SpecIndicators == IndicatorsInit /\ [][IndicatorsNext]_vars

IndicatorFields ==
    {"rsi", "macd_line", "macd_histogram", "macd_signal",
     "bb_lower", "bb_middle", "bb_upper", "atr"}

ValidRows(rows) == Cardinality({i \in 1..Len(rows) : rows[i] = "num"})

(* C2: for every OHLC series with fewer than 35 valid rows after the rows  *)
(* with a non-numeric price are dropped (the empty series included),       *)
(* calculate_indicators returns an IndicatorSet whose eight fields are all *)
(* absent, whatever finta would compute or raise.                          *)
C2_TooFewRowsAllAbsent ==
    (ret # <<>> /\ ValidRows(args.ohlc_data) < 35) =>
        /\ DOMAIN ret[1] = IndicatorFields
        /\ \A f \in IndicatorFields : ret[1][f] = None

\* 35 rows of which one is dropped, and finta has values for them
C2_Witness ==
    /\ ret # <<>>
    /\ Len(args.ohlc_data) = 35
    /\ ValidRows(args.ohlc_data) = 34
    /\ ~args.ta.raises /\ ~args.ta.RSI.nan /\ ~args.ta.ATR.nan
    /\ ret[1] = AllNone

(* C3: in every IndicatorSet calculate_indicators returns, macd_histogram  *)
(* is present and equals macd_line - macd_signal when both are present,    *)
(* and is absent when either of them is absent.                            *)
C3_HistogramIsLineMinusSignal ==
    ret # <<>> =>
        LET r == ret[1] IN
        IF r.macd_line # None /\ r.macd_signal # None
        THEN /\ r.macd_histogram # None
             /\ r.macd_histogram[1] = r.macd_line[1] - r.macd_signal[1]
        ELSE r.macd_histogram = None

\* a set with line 1.2 and signal -1.5, so the histogram is 2.7
C3_Witness ==
    /\ ret # <<>>
    /\ ret[1].macd_line = <<12>>
    /\ ret[1].macd_signal = <<-15>>
    /\ ret[1].macd_histogram = <<27>>

\* a set with a line and no signal
C3_WitnessAbsent ==
    /\ ret # <<>>
    /\ ret[1].macd_line = <<12>>
    /\ ret[1].macd_signal = None

----------------------------------------------------------------------------
(* The detectors on their own: a price history is built entry by entry and *)
(* handed to one detector.                                                 *)

DetectPrices == {0, 100, 103}
DetectTols == {<<1, 100>>, <<3, 100>>}
DetectAtrs == {None, Some(0), Some(2)}

DetectInit ==
    /\ LoopIdle
    /\ callee = "none"
    /\ args = [price_history |-> <<>>]
    /\ ret = <<>>

PushPrice ==
    /\ ret = <<>>
    /\ Len(args.price_history) < MaxHist
    /\ \E p \in DetectPrices :
           /\ Moves(Append(args.price_history, p)) <= MaxMoves
           /\ args' = [args EXCEPT !.price_history = Append(@, p)]
    /\ UNCHANGED <<callee, ret>>
    /\ UNCHANGED loopVars

CallRange ==
    /\ ret = <<>>
    /\ \E tol \in DetectTols :
           /\ args' = [price_history |-> args.price_history, tol |-> tol]
           /\ ret' = <<detect_range_opportunity(args.price_history, tol)>>
    /\ callee' = "detect_range_opportunity"
    /\ UNCHANGED loopVars

CallBreakout ==
    /\ ret = <<>>
    /\ \E cp \in {0, 100, 1000}, atr \in DetectAtrs :
           /\ args' = [price_history |-> args.price_history, current_price |-> cp,
                       indicators |-> [AllNone EXCEPT !.atr = atr]]
           /\ ret' = <<detect_breakout(args.price_history, cp,
                                       [AllNone EXCEPT !.atr = atr], 10)>>
    /\ callee' = "detect_breakout"
    /\ UNCHANGED loopVars

CallDca ==
    /\ ret = <<>>
    /\ \E atr \in DetectAtrs :
           /\ args' = [price_history |-> args.price_history,
                       indicators |-> [AllNone EXCEPT !.atr = atr]]
           /\ ret' = <<detect_dca_opportunity(args.price_history,
                                              [AllNone EXCEPT !.atr = atr])>>
    /\ callee' = "detect_dca_opportunity"
    /\ UNCHANGED loopVars

CallPredict ==
    /\ ret = <<>>
    /\ ret' = <<predict_next_move(args.price_history)>>
    /\ callee' = "predict_next_move"
    /\ UNCHANGED args
    /\ UNCHANGED loopVars

DetectNext == PushPrice \/ CallRange \/ CallBreakout \/ CallDca \/ CallPredict

SpecDetect == DetectInit /\ [][DetectNext]_vars

\* (max - min) / avg of the last 10 entries exceeds tol; avg is positive
ExceedsTol(ph, tol) ==
    LET recent == LastN(ph, 10) IN
    /\ SumSeq(recent) > 0
    /\ (MaxOf(recent) - MinOf(recent)) * Len(recent) * tol[2] > tol[1] * SumSeq(recent)

(* C4: detect_range_opportunity never returns a proposal whose buy level   *)
(* (min * 1.01) is greater than or equal to its sell level (max * 0.99);   *)
(* with fewer than 10 history points, or when (max - min) / avg of the     *)
(* last 10 exceeds the tolerance, it returns no opportunity.               *)
C4_RangeNeverBuyAboveSell ==
    (callee = "detect_range_opportunity") =>
        LET r == ret[1]
            ph == args.price_history
        IN  /\ r.kind = "range" =>
                  /\ r.buy < r.sell
                  /\ r.buy = MinOf(LastN(ph, 10)) * 101
                  /\ r.sell = MaxOf(LastN(ph, 10)) * 99
            /\ Len(ph) < 10 => r = NoOpp
            /\ (Len(ph) >= 10 /\ ExceedsTol(ph, args.tol)) => r = NoOpp

\* a tight range whose levels cross (all prices equal): no proposal
C4_Witness ==
    /\ callee = "detect_range_opportunity"
    /\ Len(args.price_history) >= 10
    /\ \A i \in 1..Len(args.price_history) : args.price_history[i] = 100
    /\ args.tol = <<3, 100>>
    /\ ret[1] = NoOpp

\* a tight range that leaves a spread: a proposal
C4_WitnessProposal ==
    /\ callee = "detect_range_opportunity"
    /\ ret[1].kind = "range"

ExampleHistory == <<100, 100, 100, 100, 100, 100, 100, 100, 100, 103>>

(* C5 as the spec states it: for the history of nine 100s and one 103 with *)
(* tolerance 0.03 the range is tight, buy is 101.0, sell is 99.0, and no   *)
(* opportunity is reported.                                                *)
C5_ExampleNoOpportunity ==
    (callee = "detect_range_opportunity" /\ args.price_history = ExampleHistory
     /\ args.tol = <<3, 100>>) =>
        ret[1] = NoOpp

(* C5 amended: for that history and tolerance the range is tight, buy is   *)
(* 101.00 (min * 1.01) and sell is 101.97 (max * 0.99), and since          *)
(* buy < sell the detector reports the range with these two levels.        *)
C5_ExampleReportsRange ==
    (callee = "detect_range_opportunity" /\ args.price_history = ExampleHistory
     /\ args.tol = <<3, 100>>) =>
        /\ ~ExceedsTol(args.price_history, args.tol)
        /\ ret[1] = [kind |-> "range", mn |-> 100, mx |-> 103,
                     buy |-> 10100, sell |-> 10197]

C5_Witness ==
    /\ callee = "detect_range_opportunity"
    /\ args.price_history = ExampleHistory
    /\ args.tol = <<3, 100>>
    /\ ret # <<>>

(* C6: detect_breakout and detect_dca_opportunity return no opportunity    *)
(* whenever the IndicatorSet's atr is absent or zero, for every price      *)
(* history and current price, without raising.                             *)
C6_NoAtrNoOpportunity ==
    (/\ callee \in {"detect_breakout", "detect_dca_opportunity"}
     /\ (args.indicators.atr = None \/ args.indicators.atr = <<0>>)) =>
        ret[1] = NoOpp

\* a price far above a full history, with a zero ATR
C6_Witness ==
    /\ callee = "detect_breakout"
    /\ Len(args.price_history) >= 10
    /\ args.current_price = 1000
    /\ args.indicators.atr = <<0>>
    /\ ret[1] = NoOpp

\* the last price far below the recent average, with no ATR
C6_WitnessDca ==
    /\ callee = "detect_dca_opportunity"
    /\ Len(args.price_history) >= 5
    /\ args.price_history[Len(args.price_history)] = 0
    /\ args.price_history[1] = 103
    /\ args.indicators.atr = None
    /\ ret[1] = NoOpp

----------------------------------------------------------------------------
(* The start of watch_coin.py on its own, lines 24-45: the command line    *)
(* and the value config.py gives ENABLE_BYBIT_TRADING_DEFAULT are the      *)
(* inputs.                                                                 *)

\* what a command line is made of: the flag, an abbreviation of it (argparse
\* accepts an unambiguous prefix) and an option the parser does not know
ArgvTokens == {"--enable-bybit", "--enable", "--dry-run"}

Argv == UNION {[1..n -> ArgvTokens] : n \in 0..MaxArgs}

\* parser.parse_args(), lines 27-33: the namespace, or the exit argparse takes
\* on an unrecognised argument
parse_args(argv) ==
    IF \E i \in 1..Len(argv) : argv[i] \notin {"--enable-bybit", "--enable"}
    THEN [exits |-> TRUE, enable_bybit |-> FALSE]
    ELSE [exits |-> FALSE, enable_bybit |-> argv # <<>>]

StartupInit ==
    /\ pc = "startup"
    /\ callee = "parse_args"
    /\ args \in [argv : Argv, ENABLE_BYBIT_TRADING_DEFAULT : BOOLEAN]
    /\ ret = <<>>
    /\ ENABLE_BYBIT_TRADING = args.ENABLE_BYBIT_TRADING_DEFAULT     \* line 24
    /\ initial_price = None
    /\ last_alert_price = None
    /\ now = 0
    /\ last_summary_time = now - 24
    /\ price_history = <<>>
    /\ price_data = NoData
    /\ indicators = AllNone
    /\ strategy_signal = "HOLD"
    /\ notified = <<>>
    /\ orders = <<>>
    /\ queried = <<>>
    /\ fetched = <<>>

\* line 33
ParseArgs ==
    /\ pc = "startup"
    /\ ret' = <<parse_args(args.argv)>>
    /\ pc' = IF parse_args(args.argv).exits THEN "exited" ELSE "parsed"
    /\ UNCHANGED <<ENABLE_BYBIT_TRADING, initial_price, last_alert_price,
                   last_summary_time, price_history, now, price_data, indicators,
                   strategy_signal, notified, orders, queried, fetched>>
    /\ UNCHANGED <<callee, args>>

\* lines 35-45, after which the polling loop starts
ApplyFlag ==
    /\ pc = "parsed"
    /\ ENABLE_BYBIT_TRADING' =
           enable_bybit_trading(ENABLE_BYBIT_TRADING, ret[1].enable_bybit)
    /\ pc' = "fetch"
    /\ UNCHANGED <<initial_price, last_alert_price, last_summary_time,
                   price_history, now, price_data, indicators, strategy_signal,
                   notified, orders, queried, fetched>>
    /\ UNCHANGED callVars

StartupNext ==
    \/ ParseArgs
    \/ ApplyFlag

SpecStartup == StartupInit /\ [][StartupNext]_vars

(* C13: when the polling loop starts, the trading-enabled flag is true     *)
(* exactly when --enable-bybit was given on the command line: without the  *)
(* flag it is false whatever ENABLE_BYBIT_TRADING_DEFAULT is (True         *)
(* included).                                                              *)
C13_EnabledOnlyByFlag ==
    pc = "fetch" => (ENABLE_BYBIT_TRADING <=> ret[1].enable_bybit)

\* no flag, a default of True: the loop starts with trading enabled
C13_EnabledByDefault ==
    /\ pc = "fetch"
    /\ args.argv = <<>>
    /\ args.ENABLE_BYBIT_TRADING_DEFAULT
    /\ ENABLE_BYBIT_TRADING

(* C13, second half: no step of the polling loop writes the flag. *)
C13_FlagNeverChanges == [][ENABLE_BYBIT_TRADING' = ENABLE_BYBIT_TRADING]_vars

====
